---- MODULE Spec2Model ----
(***************************************************************************)
(* The CHIP-8 virtual machine of chip8.py: the Emulator object's state,    *)
(* the driver loop of main() and cycle() (handle_input, ipf steps of       *)
(* tick, update_timers, render) and the instruction semantics of tick().   *)
(* An uncaught Python exception (IndexError) ends the program.             *)
(***************************************************************************)
EXTENDS Integers, Sequences, FiniteSets, TLC

\* ------------------------------------------------------------ constants
MemSize == 4096
NumRegs == 16
StackSize == 48
NumKeys == 16
ResX == 64
ResY == 32
RomBase == 512
InitPc == 512
SpriteWidth == 8

\* ------------------------------------------------------------ bounds
\* largest instructions-per-frame setting explored (0 is the time-budget loop)
MaxIpf == 2
\* most events one pygame.event.get() returns
MaxEvents == 1
\* outstanding calls after which the model stops following a program
MaxCalls == 26

VARIABLES
    rom,            \* bytes of the file named by sys.argv[1]
    quirks,         \* the QUIRK_* settings
    ipf,            \* instructions per frame
    keys,           \* the CHIP-8 keys the user presses and releases while the program runs
    mem, regs, i_reg, pc, stack, sp, kb,
    sound_timer, delay_timer, kb_interrupt, interrupted, disp,
    phase,          \* where main()/cycle() stands
    ticks_left,     \* iterations left of cycle()'s for loop
    error,          \* the exception that ended the program, or "none"
    last,           \* history: the instruction word and outcome of the last tick()
    calls,          \* history: addresses of the 2nnn whose 00EE is outstanding
    wrapped,        \* history: a 2nnn ran with 24 calls outstanding, or a 00EE with none
    drawn,          \* history: the last Dxyn that ran to its end, and the display around it
    frame           \* history: has render() run yet, and the Dxyn executed since it last ran

vars == <<rom, quirks, ipf, keys, mem, regs, i_reg, pc, stack, sp, kb, sound_timer,
          delay_timer, kb_interrupt, interrupted, disp, phase, ticks_left, error,
          last, calls, wrapped, drawn, frame>>

\* kb_interrupt = None is the empty sequence, kb_interrupt = k is <<k>>
None == <<>>

\* ------------------------------------------------------------ integer helpers
RECURSIVE BitOr(_, _)
BitOr(a, b) ==
    IF a = 0 THEN b
    ELSE IF b = 0 THEN a
    ELSE (IF a % 2 = 1 \/ b % 2 = 1 THEN 1 ELSE 0) + 2 * BitOr(a \div 2, b \div 2)

RECURSIVE BitAnd(_, _)
BitAnd(a, b) ==
    IF a = 0 \/ b = 0 THEN 0
    ELSE (IF a % 2 = 1 /\ b % 2 = 1 THEN 1 ELSE 0) + 2 * BitAnd(a \div 2, b \div 2)

RECURSIVE BitXor(_, _)
BitXor(a, b) ==
    IF a = 0 THEN b
    ELSE IF b = 0 THEN a
    ELSE (IF a % 2 # b % 2 THEN 1 ELSE 0) + 2 * BitXor(a \div 2, b \div 2)

\* no masking to 8 bits
Mask8_none(v) == v

\* v & 0x00FF on a Python int (two's complement for a negative v)
Mask8(v) == v % 256

\* v & 0x0FFF
Mask12(v) == v % 4096

\* ------------------------------------------------------------ construction
sprites == <<
    240, 144, 144, 144, 240,
     32,  96,  32,  32, 112,
    240,  16, 240, 128, 240,
    240,  16, 240,  16, 240,
    144, 144, 240,  16,  16,
    240, 128, 240,  16, 240,
    240, 128, 240, 144, 240,
    240,  16,  32,  64,  64,
    240, 144, 240, 144, 240,
    240, 144, 240,  16, 240,
    240, 144, 240, 144, 144,
    224, 144, 224, 144, 224,
    240, 128, 128, 128, 240,
    224, 144, 144, 144, 224,
    240, 128, 240, 128, 240,
    240, 128, 240, 128, 128 >>

\* self.mem after __init__: zeroes, then load_sprites()
load_sprites == [a \in 0..(MemSize - 1) |-> IF a < Len(sprites) THEN sprites[a + 1] ELSE 0]

\* the QUIRKS section's defaults
DefaultQuirks ==
    [vF_reset |-> TRUE, memory |-> TRUE, disp_wait |-> TRUE, disp_wait_faker |-> FALSE,
     clipping |-> TRUE, shifting |-> FALSE, jumping |-> FALSE]

EmptyDisp == [p \in 0..(ResX * ResY - 1) |-> 0]

\* The state after Emulator(config), for a ROM file, a configuration (quirks and
\* ipf) and the keys the user will touch
InitWith(Roms, Configs, Ipfs, KeySets) ==
    /\ rom \in Roms
    /\ quirks \in Configs
    /\ ipf \in Ipfs
    /\ keys \in KeySets
    /\ mem = load_sprites
    /\ regs = [r \in 0..(NumRegs - 1) |-> 0]
    /\ i_reg = 0
    /\ pc = InitPc
    /\ stack = [c \in 0..(StackSize - 1) |-> 0]
    /\ sp = 0
    /\ kb = [k \in 0..(NumKeys - 1) |-> 0]
    /\ sound_timer = 0
    /\ delay_timer = 0
    /\ kb_interrupt = None
    /\ interrupted = FALSE
    /\ disp = EmptyDisp
    /\ phase = "load"
    /\ ticks_left = 0
    /\ error = "none"
    /\ last = [op |-> -1, status |-> "none", pc |-> InitPc, regs |-> [r \in 0..(NumRegs - 1) |-> 0]]
    /\ calls = <<>>
    /\ wrapped = FALSE
    /\ drawn = [op |-> -1, i_reg |-> 0, vx |-> 0, vy |-> 0, rows |-> <<>>,
                before |-> {}, after |-> {}]
    /\ frame = [rendered |-> FALSE, draws |-> 0]

\* ------------------------------------------------------------ load_rom
\* load_rom(path): every byte of the file goes to mem[0x200 + i]; a file longer
\* than the memory above 0x200 raises IndexError
LoadRom ==
    /\ phase = "load"
    /\ IF Len(rom) > MemSize - RomBase
       THEN /\ mem' = [a \in 0..(MemSize - 1) |->
                          IF a >= RomBase THEN rom[a - RomBase + 1] ELSE mem[a]]
            /\ error' = "IndexError"
            /\ phase' = "crashed"
       ELSE /\ mem' = [a \in 0..(MemSize - 1) |->
                          IF a >= RomBase /\ a - RomBase < Len(rom)
                          THEN rom[a - RomBase + 1] ELSE mem[a]]
            /\ error' = error
            /\ phase' = "input"
    /\ UNCHANGED <<rom, quirks, ipf, keys, regs, i_reg, pc, stack, sp, kb, sound_timer,
                   delay_timer, kb_interrupt, interrupted, disp, ticks_left, last,
                   calls, wrapped, drawn, frame>>

\* ------------------------------------------------------------ handle_input
\* The events pygame can deliver; key is the CHIP-8 key key_map gives for ev.key
Events ==
    [type : {"KEYDOWN", "KEYUP"}, key : keys] \cup {[type |-> "QUIT", key |-> 0]}

EventSeqs == UNION {[1..n -> Events] : n \in 0..MaxEvents}

\* the body of handle_input's for loop, from event number i on; h = [kb, kb_interrupt, quit]
RECURSIVE handle_events(_, _, _)
handle_events(evs, i, h) ==
    IF i > Len(evs) THEN h
    ELSE LET ev == evs[i] IN
         IF ev.type = "QUIT" THEN [h EXCEPT !.quit = TRUE]
         ELSE IF ev.type = "KEYDOWN"
              THEN handle_events(evs, i + 1,
                        [h EXCEPT !.kb = [h.kb EXCEPT ![ev.key] = 1],
                                  !.kb_interrupt = <<ev.key>>])
              ELSE handle_events(evs, i + 1, [h EXCEPT !.kb = [h.kb EXCEPT ![ev.key] = 0]])

\* cycle() up to its loop: handle_input(), then the for loop of ipf steps, or
\* (ipf <= 0) the while loop, whose time budget may already be spent
HandleInput ==
    /\ phase = "input"
    /\ \E evs \in EventSeqs :
          LET h == handle_events(evs, 1, [kb |-> kb, kb_interrupt |-> kb_interrupt, quit |-> FALSE])
          IN /\ kb' = h.kb
             /\ kb_interrupt' = h.kb_interrupt
             /\ IF h.quit
                THEN phase' = "exited" /\ ticks_left' = ticks_left
                ELSE IF ipf > 0
                     THEN phase' = "tick" /\ ticks_left' = ipf
                     ELSE phase' \in {"tick", "timers"} /\ ticks_left' = 0
    /\ UNCHANGED <<rom, quirks, ipf, keys, mem, regs, i_reg, pc, stack, sp, sound_timer,
                   delay_timer, interrupted, disp, error, last, calls, wrapped, drawn,
                   frame>>

\* ------------------------------------------------------------ update_timers
\* update_timers decrementing the sound timer only while the delay timer runs
update_timers_linked(t) ==
    [delay_timer |-> IF t.delay_timer > 0 THEN t.delay_timer - 1 ELSE t.delay_timer,
     sound_timer |-> IF t.delay_timer > 0 /\ t.sound_timer > 0
                     THEN t.sound_timer - 1 ELSE t.sound_timer]

\* t = [delay_timer, sound_timer]
update_timers(t) ==
    [delay_timer |-> IF t.delay_timer > 0 THEN t.delay_timer - 1 ELSE t.delay_timer,
     sound_timer |-> IF t.sound_timer > 0 THEN t.sound_timer - 1 ELSE t.sound_timer]

UpdateTimers ==
    /\ phase = "timers"
    /\ LET t == update_timers([delay_timer |-> delay_timer, sound_timer |-> sound_timer])
       IN delay_timer' = t.delay_timer /\ sound_timer' = t.sound_timer
    /\ phase' = "render"
    /\ UNCHANGED <<rom, quirks, ipf, keys, mem, regs, i_reg, pc, stack, sp, kb, kb_interrupt,
                   interrupted, disp, ticks_left, error, last, calls, wrapped, drawn,
                   frame>>

\* ------------------------------------------------------------ render
\* render() without its last statement, self.interrupted = True
Render_no_flag ==
    /\ phase = "render"
    /\ phase' = "input"
    /\ frame' = [rendered |-> TRUE, draws |-> 0]
    /\ UNCHANGED <<rom, quirks, ipf, keys, mem, regs, i_reg, pc, stack, sp, kb, sound_timer,
                   delay_timer, kb_interrupt, interrupted, disp, ticks_left, error, last,
                   calls, wrapped, drawn>>

\* render() reads the display buffer and ends with self.interrupted = True
Render ==
    /\ phase = "render"
    /\ interrupted' = TRUE
    /\ phase' = "input"
    /\ frame' = [rendered |-> TRUE, draws |-> 0]
    /\ UNCHANGED <<rom, quirks, ipf, keys, mem, regs, i_reg, pc, stack, sp, kb, sound_timer,
                   delay_timer, kb_interrupt, disp, ticks_left, error, last, calls,
                   wrapped, drawn>>

\* ------------------------------------------------------------ tick: decoding
\* The machine state tick() works on, as a record
Machine ==
    [pc |-> pc, regs |-> regs, i_reg |-> i_reg, mem |-> mem, stack |-> stack, sp |-> sp,
     disp |-> disp, kb |-> kb, delay_timer |-> delay_timer, sound_timer |-> sound_timer,
     kb_interrupt |-> kb_interrupt, interrupted |-> interrupted,
     error |-> "none", status |-> "completed"]

\* opcode = self.mem[self.pc] << 8 | self.mem[self.pc + 1]
Fetch(s) == BitOr(s.mem[s.pc] * 256, s.mem[s.pc + 1])

\* (opcode & 0x0F00) >> 8 and (opcode & 0x00F0) >> 4
FieldX(opcode) == BitAnd(opcode, 3840) \div 256
FieldY(opcode) == BitAnd(opcode, 240) \div 16
\* opcode & 0xF000, opcode & 0x0FFF, opcode & 0x00FF, opcode & 0x000F
Family(opcode) == BitAnd(opcode, 61440)
FieldNNN(opcode) == BitAnd(opcode, 4095)
FieldNN(opcode) == BitAnd(opcode, 255)
FieldN(opcode) == BitAnd(opcode, 15)

Raise(s) == [s EXCEPT !.error = "IndexError", !.status = "error"]

\* ------------------------------------------------------------ tick: flow control
Op_00E0(s) == [s EXCEPT !.disp = EmptyDisp]

\* 00EE stepping the stack pointer back once instead of twice
Op_00EE_single_pop(s) ==
    LET hi  == s.stack[s.sp]
        sp1 == (s.sp - 1) % StackSize
        ret == BitOr(hi * 256, s.stack[sp1])
    IN [s EXCEPT !.pc = ret, !.sp = sp1]

Op_00EE(s) ==
    LET hi  == s.stack[s.sp]
        sp1 == (s.sp - 1) % StackSize
        ret == BitOr(hi * 256, s.stack[sp1])
        sp2 == (sp1 - 1) % StackSize
    IN [s EXCEPT !.pc = ret, !.sp = sp2]

Op_1nnn(s, opcode) == [s EXCEPT !.pc = FieldNNN(opcode)]

\* 2nnn pushing the high byte first and the low byte second
Op_2nnn_high_first(s, opcode) ==
    LET sp1 == (s.sp + 1) % StackSize
        st1 == [s.stack EXCEPT ![sp1] = s.pc \div 256]
        sp2 == (sp1 + 1) % StackSize
        st2 == [st1 EXCEPT ![sp2] = BitAnd(s.pc, 255)]
    IN [s EXCEPT !.sp = sp2, !.stack = st2, !.pc = FieldNNN(opcode)]

Op_2nnn(s, opcode) ==
    LET sp1 == (s.sp + 1) % StackSize
        st1 == [s.stack EXCEPT ![sp1] = BitAnd(s.pc, 255)]
        sp2 == (sp1 + 1) % StackSize
        st2 == [st1 EXCEPT ![sp2] = s.pc \div 256]
    IN [s EXCEPT !.sp = sp2, !.stack = st2, !.pc = FieldNNN(opcode)]

Op_3xnn(s, x, opcode) == IF s.regs[x] = FieldNN(opcode) THEN [s EXCEPT !.pc = s.pc + 2] ELSE s

Op_4xnn(s, x, opcode) == IF s.regs[x] # FieldNN(opcode) THEN [s EXCEPT !.pc = s.pc + 2] ELSE s

Op_5xy0(s, x, y) == IF s.regs[x] = s.regs[y] THEN [s EXCEPT !.pc = s.pc + 2] ELSE s

Op_9xy0(s, x, y) == IF s.regs[x] # s.regs[y] THEN [s EXCEPT !.pc = s.pc + 2] ELSE s

Op_Bxnn(s, x, opcode) ==
    [s EXCEPT !.pc = FieldNNN(opcode) + (IF quirks.jumping THEN s.regs[x] ELSE s.regs[0])]

\* ------------------------------------------------------------ tick: registers
Op_6xnn(r, x, opcode) == [r EXCEPT ![x] = FieldNN(opcode)]

Op_7xnn(r, x, opcode) == [r EXCEPT ![x] = Mask8(r[x] + FieldNN(opcode))]

Op_8xy0(r, x, y) == [r EXCEPT ![x] = r[y]]

vF_reset(r) == IF quirks.vF_reset THEN [r EXCEPT ![15] = 0] ELSE r

Op_8xy1(r, x, y) == vF_reset([r EXCEPT ![x] = BitOr(r[x], r[y])])

Op_8xy2(r, x, y) == vF_reset([r EXCEPT ![x] = BitAnd(r[x], r[y])])

Op_8xy3(r, x, y) == vF_reset([r EXCEPT ![x] = BitXor(r[x], r[y])])

\* 8xy4 masking the sum to 8 bits before the carry test
Op_8xy4_mask_first(r, x, y) ==
    LET r1 == [r EXCEPT ![x] = Mask8(r[x] + r[y])]
    IN [r1 EXCEPT ![15] = IF r1[x] > 255 THEN 1 ELSE 0]

Op_8xy4(r, x, y) ==
    LET r1 == [r EXCEPT ![x] = r[x] + r[y]]
        r2 == [r1 EXCEPT ![15] = IF r1[x] > 255 THEN 1 ELSE 0]
    IN [r2 EXCEPT ![x] = Mask8(r2[x])]

Op_8xy5(r, x, y) ==
    LET r1 == [r EXCEPT ![x] = r[x] - r[y]]
        r2 == [r1 EXCEPT ![15] = IF r1[x] < 0 THEN 0 ELSE 1]
    IN [r2 EXCEPT ![x] = Mask8(r2[x])]

\* the copy of Vy into Vx made whatever the shifting quirk says
ShiftSource_always_copy(r, x, y) == [r EXCEPT ![x] = r[y]]

\* if not self.QUIRK_shifting: self.regs[x] = self.regs[y]
ShiftSource(r, x, y) == IF ~quirks.shifting THEN [r EXCEPT ![x] = r[y]] ELSE r

Op_8xy6(r, x, y) ==
    LET r0 == ShiftSource(r, x, y)
        Rx == r0[x]
        r1 == [r0 EXCEPT ![x] = r0[x] \div 2]
        r2 == [r1 EXCEPT ![15] = BitAnd(Rx, 1)]
    IN [r2 EXCEPT ![x] = Mask8(r2[x])]

Op_8xy7(r, x, y) ==
    LET r1 == [r EXCEPT ![x] = r[y] - r[x]]
        r2 == [r1 EXCEPT ![15] = IF r1[x] < 0 THEN 0 ELSE 1]
    IN [r2 EXCEPT ![x] = Mask8(r2[x])]

Op_8xyE(r, x, y) ==
    LET r0 == ShiftSource(r, x, y)
        Rx == r0[x]
        r1 == [r0 EXCEPT ![x] = r0[x] * 2]
        r2 == [r1 EXCEPT ![15] = BitAnd(Rx, 128) \div 128]
    IN [r2 EXCEPT ![x] = Mask8(r2[x])]

\* the match on opcode & 0x000F of family 0x8000; an unlisted nibble matches nothing
Op_8xyN(s, x, y, opcode) ==
    LET n == FieldN(opcode)
        r == s.regs
    IN [s EXCEPT !.regs =
            CASE n = 0 -> Op_8xy0(r, x, y)
              [] n = 1 -> Op_8xy1(r, x, y)
              [] n = 2 -> Op_8xy2(r, x, y)
              [] n = 3 -> Op_8xy3(r, x, y)
              [] n = 4 -> Op_8xy4(r, x, y)
              [] n = 5 -> Op_8xy5(r, x, y)
              [] n = 6 -> Op_8xy6(r, x, y)
              [] n = 7 -> Op_8xy7(r, x, y)
              [] n = 14 -> Op_8xyE(r, x, y)
              [] OTHER -> r]

Op_Cxnn(r, x, opcode, rnd) == [r EXCEPT ![x] = BitAnd(rnd, FieldNN(opcode))]

\* ------------------------------------------------------------ tick: display
\* set_pixel without the clipping test: every coordinate wraps
set_pixel_wrap(d, x, y) ==
    LET pos == (x % ResX) + (y % ResY) * 64
        d1  == [d EXCEPT ![pos] = IF d[pos] = 0 THEN 1 ELSE 0]
    IN [disp |-> d1, ret |-> IF d1[pos] = 0 THEN 1 ELSE 0]

\* set_pixel writing 1 instead of toggling
set_pixel_lit(d, x, y) ==
    LET pos == (x % ResX) + (y % ResY) * 64
    IN [disp |-> [d EXCEPT ![pos] = 1], ret |-> IF d[pos] = 1 THEN 1 ELSE 0]

\* set_pixel(x, y) on display buffer d: the buffer afterwards and the value returned
set_pixel(d, x, y) ==
    IF quirks.clipping /\ (x >= ResX \/ y >= ResY)
    THEN [disp |-> d, ret |-> 1]
    ELSE IF quirks.clipping /\ (x < 0 \/ y < 0)
    THEN [disp |-> d, ret |-> 1]
    ELSE LET pos == (x % ResX) + (y % ResY) * 64
             d1  == [d EXCEPT ![pos] = IF d[pos] = 0 THEN 1 ELSE 0]
         IN [disp |-> d1, ret |-> IF d1[pos] = 0 THEN 1 ELSE 0]

\* the two loops of Dxyn from bit k = row * 8 + col on; reading the sprite row
\* past the end of memory raises IndexError
RECURSIVE draw_rows(_, _, _, _, _)
draw_rows(s, x, y, height, k) ==
    IF k >= height * SpriteWidth THEN s
    ELSE LET row == k \div SpriteWidth
             col == k % SpriteWidth
         IN IF s.i_reg + row >= MemSize THEN Raise(s)
            ELSE LET sprite == Mask8(s.mem[s.i_reg + row] * 2^col)
                 IN IF BitAnd(sprite, 128) > 0
                    THEN LET px == set_pixel(s.disp, (s.regs[x] % 64) + col, (s.regs[y] % 32) + row)
                         IN draw_rows([s EXCEPT !.disp = px.disp,
                                                !.regs = IF px.ret # 0
                                                         THEN [s.regs EXCEPT ![15] = 1]
                                                         ELSE s.regs],
                                      x, y, height, k + 1)
                    ELSE draw_rows(s, x, y, height, k + 1)

\* the display wait that holds the draw back but moves on to the next instruction
display_wait_no_rollback(s) ==
    IF quirks.disp_wait
    THEN IF quirks.disp_wait_faker
         THEN LET t == update_timers([delay_timer |-> s.delay_timer, sound_timer |-> s.sound_timer])
              IN [s EXCEPT !.delay_timer = t.delay_timer, !.sound_timer = t.sound_timer]
         ELSE IF s.interrupted
              THEN [s EXCEPT !.interrupted = FALSE]
              ELSE [s EXCEPT !.status = "waiting-for-vblank"]
    ELSE s

\* the display wait that leaves self.interrupted set after letting a draw through
display_wait_keep_flag(s) ==
    IF quirks.disp_wait
    THEN IF quirks.disp_wait_faker
         THEN LET t == update_timers([delay_timer |-> s.delay_timer, sound_timer |-> s.sound_timer])
              IN [s EXCEPT !.delay_timer = t.delay_timer, !.sound_timer = t.sound_timer]
         ELSE IF s.interrupted
              THEN s
              ELSE [s EXCEPT !.pc = s.pc - 2, !.status = "waiting-for-vblank"]
    ELSE s

\* the display-wait test at the head of Dxyn: the state to draw from, or the
\* early return (pc rolled back) when no render has set interrupted
display_wait(s) ==
    IF quirks.disp_wait
    THEN IF quirks.disp_wait_faker
         THEN LET t == update_timers([delay_timer |-> s.delay_timer, sound_timer |-> s.sound_timer])
              IN [s EXCEPT !.delay_timer = t.delay_timer, !.sound_timer = t.sound_timer]
         ELSE IF s.interrupted
              THEN [s EXCEPT !.interrupted = FALSE]
              ELSE [s EXCEPT !.pc = s.pc - 2, !.status = "waiting-for-vblank"]
    ELSE s

Op_Dxyn(s, x, y, opcode) ==
    LET s1 == display_wait(s)
    IN IF s1.status # "completed" THEN s1
       ELSE draw_rows([s1 EXCEPT !.regs = [s1.regs EXCEPT ![15] = 0]], x, y, FieldN(opcode), 0)

\* ------------------------------------------------------------ tick: keys
\* self.kb[self.regs[x]] raises IndexError for a register value above 15
Op_Ex9E(s, x) ==
    IF s.regs[x] >= NumKeys THEN Raise(s)
    ELSE IF s.kb[s.regs[x]] # 0 THEN [s EXCEPT !.pc = s.pc + 2] ELSE s

Op_ExA1(s, x) ==
    IF s.regs[x] >= NumKeys THEN Raise(s)
    ELSE IF s.kb[s.regs[x]] = 0 THEN [s EXCEPT !.pc = s.pc + 2] ELSE s

Op_ExNN(s, x, opcode) ==
    CASE FieldNN(opcode) = 158 -> Op_Ex9E(s, x)
      [] FieldNN(opcode) = 161 -> Op_ExA1(s, x)
      [] OTHER -> s

\* Fx0A that does not roll PC back when no key is latched
Op_Fx0A_no_rollback(s, x) ==
    IF s.kb_interrupt # None
    THEN [s EXCEPT !.regs = [s.regs EXCEPT ![x] = s.kb_interrupt[1]], !.kb_interrupt = None]
    ELSE [s EXCEPT !.status = "waiting-for-key"]

Op_Fx0A(s, x) ==
    IF s.kb_interrupt # None
    THEN [s EXCEPT !.regs = [s.regs EXCEPT ![x] = s.kb_interrupt[1]], !.kb_interrupt = None]
    ELSE [s EXCEPT !.pc = s.pc - 2, !.status = "waiting-for-key"]

\* ------------------------------------------------------------ tick: timers, I, memory
Op_Fx07(s, x) == [s EXCEPT !.regs = [s.regs EXCEPT ![x] = s.delay_timer]]

Op_Fx15(s, x) == [s EXCEPT !.delay_timer = s.regs[x]]

Op_Fx18(s, x) == [s EXCEPT !.sound_timer = s.regs[x]]

Op_Fx1E(s, x) == [s EXCEPT !.i_reg = Mask12(s.i_reg + s.regs[x])]

Op_Fx29(s, x) == [s EXCEPT !.i_reg = Mask12(s.regs[x] * 5)]

\* self.mem[self.i_reg + i] = vals[i + 1] for i = k, k + 1, ...; IndexError past the end
RECURSIVE mem_store(_, _, _)
mem_store(s, vals, k) ==
    IF k >= Len(vals) THEN s
    ELSE IF s.i_reg + k >= MemSize THEN Raise(s)
    ELSE mem_store([s EXCEPT !.mem = [s.mem EXCEPT ![s.i_reg + k] = vals[k + 1]]], vals, k + 1)

Op_Fx33(s, x) ==
    mem_store(s, <<s.regs[x] \div 100, (s.regs[x] % 100) \div 10, s.regs[x] % 10>>, 0)

\* Fx55/Fx65 adding x + 1 to I whatever the memory quirk says
memory_quirk_always(s, x) ==
    IF s.error = "none" THEN [s EXCEPT !.i_reg = Mask12(s.i_reg + x + 1)] ELSE s

\* self.i_reg += x + 1; self.i_reg &= 0x0FFF under the memory quirk
memory_quirk(s, x) ==
    IF s.error = "none" /\ quirks.memory THEN [s EXCEPT !.i_reg = Mask12(s.i_reg + x + 1)] ELSE s

Op_Fx55(s, x) == memory_quirk(mem_store(s, [i \in 1..(x + 1) |-> s.regs[i - 1]], 0), x)

\* self.regs[i] = self.mem[self.i_reg + i] for i = k .. x
RECURSIVE regs_load(_, _, _)
regs_load(s, x, k) ==
    IF k > x THEN s
    ELSE IF s.i_reg + k >= MemSize THEN Raise(s)
    ELSE regs_load([s EXCEPT !.regs = [s.regs EXCEPT ![k] = s.mem[s.i_reg + k]]], x, k + 1)

Op_Fx65(s, x) == memory_quirk(regs_load(s, x, 0), x)

Op_FxNN(s, x, opcode) ==
    LET nn == FieldNN(opcode)
    IN CASE nn = 7 -> Op_Fx07(s, x)
         [] nn = 10 -> Op_Fx0A(s, x)
         [] nn = 21 -> Op_Fx15(s, x)
         [] nn = 24 -> Op_Fx18(s, x)
         [] nn = 30 -> Op_Fx1E(s, x)
         [] nn = 41 -> Op_Fx29(s, x)
         [] nn = 51 -> Op_Fx33(s, x)
         [] nn = 85 -> Op_Fx55(s, x)
         [] nn = 101 -> Op_Fx65(s, x)
         [] OTHER -> s

\* ------------------------------------------------------------ tick
\* the match on opcode & 0xF000, s.pc already advanced; a word no case matches
\* changes nothing
Dispatch(s, opcode, rnd) ==
    LET x   == FieldX(opcode)
        y   == FieldY(opcode)
        fam == Family(opcode) \div 4096
    IN CASE fam = 0 /\ FieldNN(opcode) = 224 -> Op_00E0(s)
         [] fam = 0 /\ FieldNN(opcode) = 238 -> Op_00EE(s)
         [] fam = 1 -> Op_1nnn(s, opcode)
         [] fam = 2 -> Op_2nnn(s, opcode)
         [] fam = 3 -> Op_3xnn(s, x, opcode)
         [] fam = 4 -> Op_4xnn(s, x, opcode)
         [] fam = 5 -> Op_5xy0(s, x, y)
         [] fam = 6 -> [s EXCEPT !.regs = Op_6xnn(s.regs, x, opcode)]
         [] fam = 7 -> [s EXCEPT !.regs = Op_7xnn(s.regs, x, opcode)]
         [] fam = 8 -> Op_8xyN(s, x, y, opcode)
         [] fam = 9 -> Op_9xy0(s, x, y)
         [] fam = 10 -> [s EXCEPT !.i_reg = FieldNNN(opcode)]
         [] fam = 11 -> Op_Bxnn(s, x, opcode)
         [] fam = 12 -> [s EXCEPT !.regs = Op_Cxnn(s.regs, x, opcode, rnd)]
         [] fam = 13 -> Op_Dxyn(s, x, y, opcode)
         [] fam = 14 -> Op_ExNN(s, x, opcode)
         [] fam = 15 -> Op_FxNN(s, x, opcode)
         [] OTHER -> s

\* self.kb_interrupt = None, the last statement of tick(): not reached by the
\* early returns of Dxyn and Fx0A, nor after an exception
clear_latch(s) == IF s.status = "completed" THEN [s EXCEPT !.kb_interrupt = None] ELSE s

\* tick() on machine state s; rnd is the byte random.randint(0, 255) returns
tick(s, rnd) ==
    IF s.pc + 1 >= MemSize THEN Raise(s)
    ELSE clear_latch(Dispatch([s EXCEPT !.pc = s.pc + 2], Fetch(s), rnd))

\* the instruction word the next tick() fetches, -1 when the fetch is out of memory
NextOp == IF pc + 1 >= MemSize THEN -1 ELSE Fetch(Machine)

IsCall(opcode) == opcode >= 0 /\ Family(opcode) = 8192
IsRet(opcode) == opcode >= 0 /\ Family(opcode) = 0 /\ FieldNN(opcode) = 238
IsRnd(opcode) == opcode >= 0 /\ Family(opcode) = 49152
IsDraw(opcode) == opcode >= 0 /\ Family(opcode) = 53248

\* the lit pixels of display buffer d
Lit(d) == {p \in DOMAIN d : d[p] = 1}

\* the n sprite bytes m[i], ..., m[i + n - 1]
SpriteRows(m, i, n) == [k \in 1..n |-> m[i + k - 1]]

\* the most Dxyn counted in one frame
MaxDraws == 2

\* what follows a tick() in cycle(): the next iteration of the for loop or the
\* end of the loop; the while loop (ipf <= 0) may go on or find its time spent
after_tick(r) ==
    IF r.error # "none" THEN {"crashed"}
    ELSE IF ipf > 0 THEN (IF ticks_left > 1 THEN {"tick"} ELSE {"timers"})
    ELSE {"tick", "timers"}

Tick ==
    /\ phase = "tick"
    /\ ~(IsCall(NextOp) /\ Len(calls) >= MaxCalls)
    /\ \E rnd \in (IF IsRnd(NextOp) THEN 0..255 ELSE {0}) :
          LET r == tick(Machine, rnd)
          IN /\ pc' = r.pc
             /\ regs' = r.regs
             /\ i_reg' = r.i_reg
             /\ mem' = r.mem
             /\ stack' = r.stack
             /\ sp' = r.sp
             /\ disp' = r.disp
             /\ delay_timer' = r.delay_timer
             /\ sound_timer' = r.sound_timer
             /\ kb_interrupt' = r.kb_interrupt
             /\ interrupted' = r.interrupted
             /\ error' = r.error
             /\ phase' \in after_tick(r)
             /\ last' = [op |-> NextOp, status |-> r.status, pc |-> pc, regs |-> regs]
    /\ ticks_left' = IF ipf > 0 THEN ticks_left - 1 ELSE ticks_left
    /\ calls' = IF IsCall(NextOp) THEN Append(calls, pc)
                ELSE IF IsRet(NextOp) /\ calls # <<>> THEN SubSeq(calls, 1, Len(calls) - 1)
                ELSE calls
    /\ wrapped' = (wrapped \/ (IsCall(NextOp) /\ 2 * Len(calls) >= StackSize)
                           \/ (IsRet(NextOp) /\ calls = <<>>))
    /\ drawn' = IF IsDraw(NextOp) /\ last'.status = "completed"
                THEN [op |-> NextOp, i_reg |-> i_reg,
                      vx |-> regs[FieldX(NextOp)], vy |-> regs[FieldY(NextOp)],
                      rows |-> SpriteRows(mem, i_reg, FieldN(NextOp)),
                      before |-> Lit(disp), after |-> Lit(disp')]
                ELSE drawn
    /\ frame' = IF IsDraw(NextOp) /\ last'.status \in {"completed", "error"}
                   /\ frame.draws < MaxDraws
                THEN [frame EXCEPT !.draws = frame.draws + 1]
                ELSE frame
    /\ UNCHANGED <<rom, quirks, ipf, keys, kb>>

Next == LoadRom \/ HandleInput \/ Tick \/ UpdateTimers \/ Render

\* ------------------------------------------------------------ ROM files
\* the bytes of a ROM holding the instruction words ops, big-endian
Program(ops) ==
    [i \in 1..(2 * Len(ops)) |->
        IF i % 2 = 1 THEN ops[(i + 1) \div 2] \div 256 ELSE ops[i \div 2] % 256]

I_RET == 238
I_JP(nnn) == 4096 + nnn
I_CALL(nnn) == 8192 + nnn
I_LD(x, nn) == 24576 + 256 * x + nn
I_ALU(x, y, n) == 32768 + 256 * x + 16 * y + n
I_LDI(nnn) == 40960 + nnn
I_DRW(x, y, n) == 53248 + 256 * x + 16 * y + n
I_F(x, nn) == 61440 + 256 * x + nn

\* k nested calls, the i-th at RomBase + (i - 1) * 2 * gap calling the next and
\* followed by a 00EE; the innermost subroutine is a lone 00EE. After the
\* outermost call comes tail: a jump to itself (the program ends) or one more 00EE
CallChain(k, gap, tail) ==
    Program([w \in 1..(k * gap + 1) |->
                IF w = k * gap + 1 THEN I_RET
                ELSE IF (w - 1) % gap = 0 THEN I_CALL(RomBase + 2 * gap * ((w - 1) \div gap + 1))
                ELSE IF w = 2 THEN tail
                ELSE IF (w - 1) % gap = 1 THEN I_RET
                ELSE 0])

\* a subroutine that calls itself for ever
SelfCall == Program(<<I_CALL(RomBase)>>)

\* a loop that calls a subroutine and returns, again and again
CallLoop == Program(<<I_CALL(RomBase + 4), I_JP(RomBase), I_RET>>)

Levels == StackSize \div 2

StackRoms ==
    {CallChain(k, gap, I_JP(RomBase + 2)) : k \in 1..Levels, gap \in {2, 6}}
        \cup {CallChain(Levels, 2, I_RET), SelfCall, CallLoop}

SpecStack == InitWith(StackRoms, {DefaultQuirks}, 0..MaxIpf, {{}}) /\ [][Next]_vars

\* ------------------------------------------------------------ call and return
\* C1: starting from an empty stack, while no more than 24 calls have been
\* nested, every 00EE sets PC to the address of the matching 2nnn plus 2 (the
\* calls are matched in reverse order) and takes the stack pointer back to where
\* it stood before that call; after the last return sp is 0 again.
C1_CallReturnRoundTrip ==
    [][(phase = "tick" /\ IsRet(NextOp) /\ ~wrapped /\ calls # <<>>)
         => /\ pc' = calls[Len(calls)] + 2
            /\ sp' = 2 * (Len(calls) - 1)
            /\ error' = "none"]_vars

\* 24 calls were nested and all 24 have returned
C1_Witness ==
    /\ last.op = I_RET /\ last.status = "completed"
    /\ calls = <<>> /\ ~wrapped
    /\ stack[0] # 0 /\ stack[StackSize - 1] # 0
    /\ sp = 0 /\ pc = RomBase + 2

\* C2: a 2nnn with 24 return addresses on the stack fails with StackOverflow,
\* overwrites no stored return address and leaves the stack pointer alone.
C2_OverflowReported ==
    [][(phase = "tick" /\ IsCall(NextOp) /\ ~wrapped /\ Len(calls) = Levels)
         => /\ error' = "StackOverflow"
            /\ stack' = stack
            /\ sp' = sp]_vars

\* C3: a 00EE with no call outstanding fails with StackUnderflow; PC is not
\* loaded from the stack and the stack pointer does not move.
C3_UnderflowReported ==
    [][(phase = "tick" /\ IsRet(NextOp) /\ ~wrapped /\ calls = <<>>)
         => /\ error' = "StackUnderflow"
            /\ sp' = sp
            /\ pc' \in {pc, pc + 2}]_vars

\* ------------------------------------------------------------ arithmetic
\* Vx := a, Vy := b, then 8xyn, then a jump to itself (the program ends)
AluRom(x, y, a, b, n) ==
    Program(<<I_LD(x, a), I_LD(y, b), I_ALU(x, y, n), I_JP(RomBase + 6)>>)

RegSample == {1, 2, 15}
ByteSample == {0, 1, 128, 255}
AluOps == {4, 6, 14}

AluRoms ==
    {AluRom(x, y, a, b, n) : x \in RegSample, y \in RegSample,
                             a \in ByteSample, b \in ByteSample, n \in AluOps}

AluConfigs == {[DefaultQuirks EXCEPT !.shifting = sh] : sh \in BOOLEAN}

SpecAlu == InitWith(AluRoms, AluConfigs, {MaxIpf}, {{}}) /\ [][Next]_vars

\* the next tick() fetches 8xyn
IsAlu(opcode, n) == opcode >= 0 /\ Family(opcode) = 32768 /\ FieldN(opcode) = n

Carry(a, b) == IF a + b > 255 THEN 1 ELSE 0

\* C8 as stated: for all x, y in 0..15 and all values a = Vx, b = Vy, 8xy4
\* leaves VF = 1 if a + b > 255, else 0, and Vx = (a + b) mod 256.
C8_AddAllRegisters ==
    [][(phase = "tick" /\ IsAlu(NextOp, 4))
         => LET x == FieldX(NextOp)
                y == FieldY(NextOp)
            IN /\ regs'[15] = Carry(regs[x], regs[y])
               /\ regs'[x] = (regs[x] + regs[y]) % 256]_vars

\* C8, amended: for all x, y in 0..15 and all values a = Vx, b = Vy, 8xy4
\* leaves VF = 1 if a + b > 255, else 0; and Vx = (a + b) mod 256 when x is not F
\* (when x is F the register holds the carry flag).
C8_AddCarry ==
    [][(phase = "tick" /\ IsAlu(NextOp, 4))
         => LET x == FieldX(NextOp)
                y == FieldY(NextOp)
            IN /\ regs'[15] = Carry(regs[x], regs[y])
               /\ (x # 15 => regs'[x] = (regs[x] + regs[y]) % 256)]_vars

\* an 8xy4 with x not F has just overflowed: the sum was above 255
C8_Witness ==
    /\ IsAlu(last.op, 4) /\ last.status = "completed"
    /\ FieldX(last.op) # 15
    /\ last.regs[FieldX(last.op)] + last.regs[FieldY(last.op)] > 255
    /\ regs[15] = 1
    /\ regs[FieldX(last.op)] = last.regs[FieldX(last.op)] + last.regs[FieldY(last.op)] - 256

\* the value 8xy6 (n = 6) or 8xyE (n = 14) leaves in Vx, and the bit it shifts out
Shifted(n, v) == IF n = 6 THEN v \div 2 ELSE (2 * v) % 256
ShiftedOut(n, v) == IF n = 6 THEN v % 2 ELSE v \div 128

IsShift(opcode) == IsAlu(opcode, 6) \/ IsAlu(opcode, 14)

\* C9 as stated: with the shifting quirk off Vx receives Vy shifted by one and
\* VF the bit shifted out of Vy; with the quirk on Vx is shifted in place, VF
\* receives the bit shifted out of the old Vx, and Vy keeps its value.
C9_ShiftAllRegisters ==
    [][(phase = "tick" /\ IsShift(NextOp))
         => LET x == FieldX(NextOp)
                y == FieldY(NextOp)
                n == FieldN(NextOp)
            IN IF ~quirks.shifting
               THEN /\ regs'[x] = Shifted(n, regs[y])
                    /\ regs'[15] = ShiftedOut(n, regs[y])
               ELSE /\ regs'[x] = Shifted(n, regs[x])
                    /\ regs'[15] = ShiftedOut(n, regs[x])
                    /\ regs'[y] = regs[y]]_vars

\* C9, amended: with the shifting quirk off VF receives the bit shifted out of
\* Vy and Vx, when x is not F, receives Vy shifted by one; with the quirk on VF
\* receives the bit shifted out of the old Vx, Vx, when x is not F, is shifted
\* in place, and Vy keeps its value when y is neither x nor F.
C9_Shift ==
    [][(phase = "tick" /\ IsShift(NextOp))
         => LET x == FieldX(NextOp)
                y == FieldY(NextOp)
                n == FieldN(NextOp)
            IN IF ~quirks.shifting
               THEN /\ (x # 15 => regs'[x] = Shifted(n, regs[y]))
                    /\ regs'[15] = ShiftedOut(n, regs[y])
               ELSE /\ (x # 15 => regs'[x] = Shifted(n, regs[x]))
                    /\ regs'[15] = ShiftedOut(n, regs[x])
                    /\ ((y # x /\ y # 15) => regs'[y] = regs[y])]_vars

\* with the quirk on, an 8xy6 has just shifted Vx = 255 in place while Vy was 0
C9_Witness ==
    /\ IsAlu(last.op, 6) /\ last.status = "completed"
    /\ quirks.shifting
    /\ FieldX(last.op) = 1 /\ FieldY(last.op) = 2
    /\ last.regs[1] = 255 /\ last.regs[2] = 0
    /\ regs[1] = 127 /\ regs[2] = 0 /\ regs[15] = 1

\* C10: with the shifting quirk enabled 8xy6 and 8xyE shift Vy (Vx receives Vy
\* shifted by one, VF the bit shifted out of Vy); with it disabled they shift Vx.
C10_QuirkShiftsVy ==
    [][(phase = "tick" /\ IsShift(NextOp))
         => LET x == FieldX(NextOp)
                n == FieldN(NextOp)
                source == IF quirks.shifting THEN regs[FieldY(NextOp)] ELSE regs[x]
            IN /\ (x # 15 => regs'[x] = Shifted(n, source))
               /\ regs'[15] = ShiftedOut(n, source)]_vars

\* ------------------------------------------------------------ drawing
\* Vx := p[1], Vy := p[2], I := the sprite, Dxyn; Vx := q[1], Vy := q[2], Dxyn
\* again; a jump to itself; then the sprite's rows
DrawRom(x, y, p, q, n, rows) ==
    Program(<<I_LD(x, p[1]), I_LD(y, p[2]), I_LDI(RomBase + 16), I_DRW(x, y, n),
              I_LD(x, q[1]), I_LD(y, q[2]), I_DRW(x, y, n), I_JP(RomBase + 14)>>) \o rows

DrawRegs == {<<1, 2>>, <<15, 2>>, <<1, 15>>}
FirstAt == {<<0, 0>>, <<60, 30>>, <<70, 40>>, <<255, 255>>}
SecondAt == FirstAt \cup {<<61, 30>>}
SpriteSample == {<<255, 255, 255, 255>>, <<165, 90, 129, 60>>}
HeightSample == {1, 4}

DrawRoms ==
    {DrawRom(xy[1], xy[2], p, q, n, rows) :
        xy \in DrawRegs, p \in FirstAt, q \in SecondAt, n \in HeightSample,
        rows \in SpriteSample}

DrawConfigs == {[DefaultQuirks EXCEPT !.clipping = c] : c \in BOOLEAN}

SpecDraw == InitWith(DrawRoms, DrawConfigs, {MaxIpf}, {{}}) /\ [][Next]_vars

\* a Dxyn is fetched by this step and is not held back by the display wait
DrawExecutes == phase = "tick" /\ IsDraw(NextOp) /\ last'.status = "completed"

\* the pixels this step toggles
Toggled == {p \in DOMAIN disp : disp'[p] # disp[p]}

\* <<row, col>> of the set bits of the sprite Dxyn is about to draw
SpriteBits ==
    {rc \in (0..(FieldN(NextOp) - 1)) \X (0..(SpriteWidth - 1)) :
        (mem[i_reg + rc[1]] \div 2^(SpriteWidth - 1 - rc[2])) % 2 = 1}

\* the display cells of the set bits of a sprite put at (x0, y0) that lie inside the display
InsideCells(x0, y0) ==
    {(x0 + rc[2]) + (y0 + rc[1]) * ResX :
        rc \in {b \in SpriteBits : x0 + b[2] < ResX /\ y0 + b[1] < ResY}}

\* C4: after an executed Dxyn VF is 1 if and only if the instruction toggled
\* at least one pixel from set to clear, and 0 otherwise, whatever the sprite,
\* Vx, Vy and the clipping quirk.
C4_CollisionFlag ==
    [][DrawExecutes
         => regs'[15] = (IF \E p \in DOMAIN disp : disp[p] = 1 /\ disp'[p] = 0
                         THEN 1 ELSE 0)]_vars

\* C5 as stated: with clipping on, the pixels an executed Dxyn toggles are
\* exactly the coordinates (Vx + col, Vy + row) of set sprite bits that lie
\* inside the display.
C5_ClipUnwrappedOrigin ==
    [][(DrawExecutes /\ quirks.clipping)
         => Toggled = InsideCells(regs[FieldX(NextOp)], regs[FieldY(NextOp)])]_vars

\* C5, amended: with clipping on and x, y other than F, the pixels an executed
\* Dxyn toggles are exactly the coordinates ((Vx mod 64) + col, (Vy mod 32) + row)
\* of set sprite bits that lie inside the display; a set bit outside it is
\* neither drawn nor wrapped.
C5_Clipping ==
    [][(DrawExecutes /\ quirks.clipping /\ FieldX(NextOp) # 15 /\ FieldY(NextOp) # 15)
         => Toggled = InsideCells(regs[FieldX(NextOp)] % 64, regs[FieldY(NextOp)] % 32)]_vars

\* with clipping on, a four-row sprite of eight set bits per row has just been
\* drawn from Vx = Vy = 255 onto an empty display: only the pixel (63, 31) is lit
C5_Witness ==
    /\ IsDraw(last.op) /\ last.status = "completed" /\ quirks.clipping
    /\ FieldX(last.op) = 1 /\ FieldY(last.op) = 2 /\ FieldN(last.op) = 4
    /\ last.regs[1] = 255 /\ last.regs[2] = 255
    /\ mem[i_reg] = 255
    /\ {p \in DOMAIN disp : disp[p] = 1} = {63 + 31 * ResX}

\* ------------------------------------------------------------ key wait
WaitKeyRom(x) == Program(<<I_F(x, 10), I_JP(RomBase + 2)>>)

\* a draw of the first font glyph, then a key wait
DrawThenWaitKeyRom == Program(<<I_DRW(0, 0, 1), I_F(1, 10), I_JP(RomBase + 4)>>)

\* two key waits with a register load before each
TwoWaitsRom ==
    Program(<<I_LD(1, 7), I_F(1, 10), I_LD(2, 9), I_F(2, 10), I_JP(RomBase + 8)>>)

KeyRoms == {WaitKeyRom(x) : x \in {0, 3, 15}} \cup {DrawThenWaitKeyRom, TwoWaitsRom}

SpecKey == InitWith(KeyRoms, {DefaultQuirks}, 0..MaxIpf, {{0, 15}}) /\ [][Next]_vars

IsWaitKey(opcode) == opcode >= 0 /\ Family(opcode) = 61440 /\ FieldNN(opcode) = 10

\* C6: after any tick() that completed or blocked (on a key or on the frame
\* boundary) the latched key is empty.
C6_LatchClearedEveryStep ==
    [][(phase = "tick" /\ last'.status # "error") => kb_interrupt' = None]_vars

\* C7: an Fx0A step with a key latched puts that key (0..15) in Vx, clears the
\* latch and leaves PC 2 past the instruction; with no key latched it leaves PC
\* at the Fx0A and changes no register, I, memory cell, stack cell, display
\* pixel or timer.
C7_KeyWait ==
    [][(phase = "tick" /\ IsWaitKey(NextOp))
         => IF kb_interrupt # None
            THEN /\ regs'[FieldX(NextOp)] = kb_interrupt[1]
                 /\ kb_interrupt[1] \in 0..(NumKeys - 1)
                 /\ kb_interrupt' = None
                 /\ pc' = pc + 2
            ELSE /\ pc' = pc
                 /\ NextOp' = NextOp
                 /\ UNCHANGED <<regs, i_reg, mem, stack, sp, disp, delay_timer, sound_timer>>]_vars

\* an Fx0A that found no key latched has been fetched again and has now put
\* key 15 in its register
C7_Witness ==
    /\ IsWaitKey(last.op) /\ last.status = "completed"
    /\ FieldX(last.op) = 2 /\ last.regs[2] = 9 /\ regs[2] = 15
    /\ pc = last.pc + 2
    /\ kb_interrupt = None

\* ------------------------------------------------------------ memory transfers and addresses
I_B(nnn) == 45056 + nnn

\* V0 := 171, Vx := 205, I := i, then Fx33, Fx55 or Fx65 (the low byte nn), then
\* a jump to itself
MemRom(x, i, nn) ==
    Program(<<I_LD(0, 171), I_LD(x, 205), I_LDI(i), I_F(x, nn), I_JP(RomBase + 8)>>)

\* V0 := v, then Bnnn to t
JumpRom(v, t) == Program(<<I_LD(0, v), I_B(t), I_JP(RomBase + 4)>>)

MemRegs == {0, 1, 15}

\* values of I: the font, free memory, the last address a transfer of V0..Vx
\* fits at, and the last cell
MemStarts(x) == {0, 768, MemSize - 1 - x, MemSize - 1}

MemRoms ==
    {MemRom(x, i, nn) : x \in MemRegs, i \in UNION {MemStarts(x) : x \in MemRegs},
                        nn \in {51, 85, 101}}
        \cup {JumpRom(0, RomBase + 4), JumpRom(255, MemSize - 1),
              Program(<<I_JP(MemSize - 1)>>), Program(<<I_JP(MemSize - 2)>>)}

MemConfigs == {[DefaultQuirks EXCEPT !.memory = m] : m \in BOOLEAN}

SpecMem == InitWith(MemRoms, MemConfigs, 0..MaxIpf, {{}}) /\ [][Next]_vars

\* the next tick() fetches Fx55 or Fx65
IsTransfer(opcode) ==
    opcode >= 0 /\ Family(opcode) = 61440 /\ FieldNN(opcode) \in {85, 101}

\* C11 as stated: an Fx55 or Fx65 that succeeds leaves I = original I + x + 1
\* with the memory quirk on and leaves I unchanged with the quirk off, for every
\* x and every I in 0..0xFFF.
C11_TransferAdvancesI ==
    [][(phase = "tick" /\ IsTransfer(NextOp) /\ last'.status = "completed")
         => i_reg' = IF quirks.memory THEN i_reg + FieldX(NextOp) + 1 ELSE i_reg]_vars

\* C11, amended: an Fx55 or Fx65 that succeeds leaves
\* I = (original I + x + 1) mod 4096 with the memory quirk on (0 after a
\* transfer that ends at the last memory cell) and leaves I unchanged with the
\* quirk off.
C11_TransferAdvancesIMod ==
    [][(phase = "tick" /\ IsTransfer(NextOp) /\ last'.status = "completed")
         => i_reg' = IF quirks.memory THEN (i_reg + FieldX(NextOp) + 1) % 4096
                     ELSE i_reg]_vars

\* with the quirk on, FF55 has just stored V0..VF at 0x300..0x30F and left I = 0x310
C11_Witness ==
    /\ IsTransfer(last.op) /\ last.status = "completed" /\ quirks.memory
    /\ FieldX(last.op) = 15 /\ FieldNN(last.op) = 85
    /\ mem[768] = 171 /\ mem[783] = 205
    /\ i_reg = 784

\* C17: in every reachable state memory cells 0..79 hold the built-in font
\* bytes written at construction.
C17_FontImmutable == \A a \in 0..(Len(sprites) - 1) : mem[a] = sprites[a + 1]

\* C19: PC stays in 0..0xFFF after every step and every address a step uses is
\* taken modulo 4096, so that no fetch, sprite read or transfer ever leaves the
\* memory.
C19_AddressRange == pc \in 0..(MemSize - 1) /\ error # "IndexError"

\* ------------------------------------------------------------ draws and frames
\* Vx := p[1], Vy := p[2], I := the sprite, the same Dxyn three times, a jump to
\* itself, then the sprite's rows
RedrawRom(x, y, p, n, rows) ==
    Program(<<I_LD(x, p[1]), I_LD(y, p[2]), I_LDI(RomBase + 14), I_DRW(x, y, n),
              I_DRW(x, y, n), I_DRW(x, y, n), I_JP(RomBase + 12)>>) \o rows

RedrawAt == {<<0, 0>>, <<60, 30>>}
RedrawSprites == {<<255, 255, 255, 255>>, <<0, 165, 90, 129>>}
RedrawHeights == {0, 1, 4}

RedrawRoms ==
    {RedrawRom(1, 2, p, n, rows) : p \in RedrawAt, n \in RedrawHeights, rows \in RedrawSprites}

FrameConfigs ==
    {[DefaultQuirks EXCEPT !.disp_wait = w, !.disp_wait_faker = f, !.clipping = c] :
        w \in BOOLEAN, f \in BOOLEAN, c \in BOOLEAN}

SpecFrame == InitWith(RedrawRoms, FrameConfigs, 0..MaxIpf, {{}}) /\ [][Next]_vars

\* the Dxyn about to run is the last executed Dxyn over again: same word, I,
\* sprite bytes, Vx and Vy (x, y other than F), on the display that draw left
SameDrawAgain ==
    /\ drawn.op = NextOp
    /\ FieldX(NextOp) # 15 /\ FieldY(NextOp) # 15
    /\ drawn.i_reg = i_reg
    /\ drawn.rows = SpriteRows(mem, i_reg, FieldN(NextOp))
    /\ drawn.vx = regs[FieldX(NextOp)] /\ drawn.vy = regs[FieldY(NextOp)]
    /\ drawn.after = Lit(disp)

\* C12 as stated: executing the same Dxyn twice returns the display buffer to
\* its state before the first draw and leaves VF = 1 after the second draw.
C12_DoubleDrawFlag ==
    [][(DrawExecutes /\ SameDrawAgain)
         => /\ Lit(disp') = drawn.before
            /\ regs'[15] = 1]_vars

\* C12, amended: executing the same Dxyn twice returns the display buffer to
\* its state before the first draw, so every pixel the first draw set is clear
\* again; VF = 1 after the second draw when the first draw set at least one pixel.
C12_DoubleDraw ==
    [][(DrawExecutes /\ SameDrawAgain)
         => /\ Lit(disp') = drawn.before
            /\ (drawn.after \ drawn.before # {} => regs'[15] = 1)]_vars

\* a four-row Dxyn has just run for the second time: the pixels its first run
\* lit are dark again, the display is empty as it was before, and VF = 1
C12_Witness ==
    /\ IsDraw(last.op) /\ last.status = "completed" /\ FieldN(last.op) = 4
    /\ drawn.op = last.op
    /\ drawn.before # {} /\ drawn.after = {} /\ Lit(disp) = {}
    /\ regs[15] = 1

\* display wait on, faker off
TrueWait == quirks.disp_wait /\ ~quirks.disp_wait_faker

\* render() has run since the last executed Dxyn (and has run at all)
FrameBoundarySeen == frame.rendered /\ frame.draws = 0

\* C15: with display wait on and the faker off, a step that fetches Dxyn while
\* no render has occurred since the last executed draw leaves PC at the same
\* Dxyn and changes no register (VF included), I, memory cell, stack cell,
\* display pixel or timer.
C15_BlockedDrawNoEffect ==
    [][(phase = "tick" /\ IsDraw(NextOp) /\ TrueWait /\ ~FrameBoundarySeen)
         => /\ pc' = pc
            /\ NextOp' = NextOp
            /\ UNCHANGED <<regs, i_reg, mem, stack, sp, disp, delay_timer, sound_timer>>]_vars

\* a Dxyn has just been held back in a frame where an earlier Dxyn lit pixels
C15_Witness ==
    /\ TrueWait
    /\ IsDraw(last.op) /\ last.status = "waiting-for-vblank"
    /\ frame.rendered /\ frame.draws = 1
    /\ pc = last.pc /\ regs = last.regs
    /\ Lit(disp) # {}

\* C16: with display wait on and the faker off, at most one Dxyn is executed
\* between two consecutive render calls, however many steps the frame has, and
\* none before the first render.
C16_OneDrawPerFrame ==
    TrueWait => /\ frame.draws <= 1
                /\ (~frame.rendered => frame.draws = 0)

\* a frame's steps are over: its first Dxyn redrew over lit pixels, its second
\* was held back
C16_Witness ==
    /\ TrueWait /\ phase = "timers"
    /\ frame.rendered /\ frame.draws = 1
    /\ drawn.before # {}
    /\ IsDraw(last.op) /\ last.status = "waiting-for-vblank"

\* ------------------------------------------------------------ words outside the instruction table
\* V1 := 5, the word w, then a jump to itself at each of the two addresses the
\* word can leave PC at
WordRom(w) ==
    Program(<<I_LD(1, 5), w, I_JP(RomBase + 4), I_JP(RomBase + 6)>>)

\* 0000, 0123, 5001, 5011, 9001, 9011, 8018, 801F, E100, E19F, F100, F156, FFFF
WordSample ==
    {0, 291, 20481, 20497, 36865, 36881, 32792, 32799, 57600, 57759, 61696, 61782, 65535}

\* a draw of the first font glyph, then 01E0
DrawThenWordRom ==
    Program(<<I_DRW(0, 0, 5), 480, I_JP(RomBase + 4), I_JP(RomBase + 6)>>)

\* a call of a subroutine that is the lone word 01EE
CallThenWordRom == Program(<<I_CALL(RomBase + 4), I_JP(RomBase + 2), 494>>)

WordRoms == {WordRom(w) : w \in WordSample} \cup {DrawThenWordRom, CallThenWordRom}

SpecWord == InitWith(WordRoms, {DefaultQuirks}, 0..MaxIpf, {{}}) /\ [][Next]_vars

\* the word is outside the instruction table: 0nnn other than 00E0 and 00EE,
\* 5xyN and 9xyN with N # 0, 8xyN with N not in {0..7, E}, ExNN and FxNN with an
\* unlisted low byte
IsUnknown(opcode) ==
    /\ opcode >= 0
    /\ LET fam == Family(opcode) \div 4096
       IN \/ fam = 0 /\ opcode \notin {224, 238}
          \/ fam \in {5, 9} /\ FieldN(opcode) # 0
          \/ fam = 8 /\ FieldN(opcode) \notin (0..7) \cup {14}
          \/ fam = 14 /\ FieldNN(opcode) \notin {158, 161}
          \/ fam = 15 /\ FieldNN(opcode) \notin {7, 10, 21, 24, 30, 41, 51, 85, 101}

\* C13: a step that fetches a word outside the instruction table changes no
\* register, I, memory cell, stack cell, display pixel or timer, advances PC by
\* exactly 2, reports UnknownOpcode, and execution continues.
C13_UnknownOpcodeReported ==
    [][(phase = "tick" /\ IsUnknown(NextOp))
         => /\ pc' = pc + 2
            /\ UNCHANGED <<regs, i_reg, mem, stack, sp, disp, delay_timer, sound_timer>>
            /\ last'.status = "UnknownOpcode"
            /\ error' = "none"]_vars

\* ------------------------------------------------------------ timers
\* V1 := d, V2 := s, delay := V1, sound := V2, a draw of one row of the first
\* font glyph, then a jump to itself
TimerRom(d, s) ==
    Program(<<I_LD(1, d), I_LD(2, s), I_F(1, 21), I_F(2, 24), I_DRW(0, 0, 1),
              I_JP(RomBase + 10)>>)

TimerSample == {<<0, 0>>, <<0, 3>>, <<3, 0>>, <<2, 3>>, <<255, 0>>, <<0, 255>>}

TimerRoms == {TimerRom(ds[1], ds[2]) : ds \in TimerSample}

TimerConfigs == {[DefaultQuirks EXCEPT !.disp_wait_faker = f] : f \in BOOLEAN}

SpecTimer == InitWith(TimerRoms, TimerConfigs, 0..MaxIpf, {{}}) /\ [][Next]_vars

\* this step calls update_timers(): cycle() after its steps, or a Dxyn under
\* the display-wait faker
UpdateTimersCalled ==
    \/ phase = "timers"
    \/ phase = "tick" /\ IsDraw(NextOp) /\ quirks.disp_wait /\ quirks.disp_wait_faker

\* a timer one tick later
Decremented(v) == IF v # 0 THEN v - 1 ELSE 0

\* C14: each call of update_timers decrements the delay timer by exactly 1 if
\* it is nonzero and the sound timer by exactly 1 if it is nonzero, each
\* whatever the other holds, and leaves a timer that is 0 at 0; in every
\* reachable state both timers are in 0..255.
C14_TimerTick ==
    /\ [](delay_timer \in 0..255 /\ sound_timer \in 0..255)
    /\ [][UpdateTimersCalled
            => /\ delay_timer' = Decremented(delay_timer)
               /\ sound_timer' = Decremented(sound_timer)]_vars

\* the first update_timers after delay := 3 and sound := 0 has run: the delay
\* timer is 2 and the sound timer still 0
C14_Witness ==
    /\ phase = "render"
    /\ regs[1] = 3 /\ regs[2] = 0
    /\ IsDraw(last.op)
    /\ delay_timer = 2 /\ sound_timer = 0

\* ------------------------------------------------------------ register values
I_ADD(x, nn) == 28672 + 256 * x + nn
I_RND(x, nn) == 49152 + 256 * x + nn

AllAluOps == (0..7) \cup {14}
FlagRegs == {1, 15}

\* Vx := a, then 7xnn, then a jump to itself
AddRom(x, a, nn) == Program(<<I_LD(x, a), I_ADD(x, nn), I_JP(RomBase + 4)>>)

\* a random byte into V1 and into VF
RndRom == Program(<<I_RND(1, 255), I_RND(15, 128), I_JP(RomBase + 4)>>)

\* delay := 255, then the delay timer read into VF
ReadTimerRom == Program(<<I_LD(1, 255), I_F(1, 21), I_F(15, 7), I_JP(RomBase + 6)>>)

\* V0..VF loaded from the ROM's own bytes
LoadRegsRom ==
    Program(<<I_LDI(RomBase), I_F(15, 101), I_JP(RomBase + 4), 65535, 33023, 254>>)

RegRoms ==
    {AluRom(x, y, a, b, n) : x \in FlagRegs, y \in FlagRegs,
                             a \in ByteSample, b \in ByteSample, n \in AllAluOps}
        \cup {AddRom(x, a, nn) : x \in FlagRegs, a \in {1, 255}, nn \in {1, 255}}
        \cup {RndRom, ReadTimerRom, LoadRegsRom}

\* the arithmetic programs with no key touched, the key waits with keys 0 and F
SpecRegs ==
    /\ \/ InitWith(RegRoms, {DefaultQuirks}, {MaxIpf}, {{}})
       \/ InitWith({WaitKeyRom(x) : x \in FlagRegs}, {DefaultQuirks}, {MaxIpf}, {{0, 15}})
    /\ [][Next]_vars

\* C18: after every step each of the 16 registers V0..VF holds an integer in
\* 0..255, also when the destination x of an arithmetic or shift instruction is F.
C18_RegisterRange == \A r \in 0..(NumRegs - 1) : regs[r] \in 0..255

\* 8F14 has just added V1 = 255 to VF = 255: VF holds the carry, 1
C18_Witness ==
    /\ IsAlu(last.op, 4) /\ last.status = "completed"
    /\ FieldX(last.op) = 15 /\ FieldY(last.op) = 1
    /\ last.regs[15] = 255 /\ last.regs[1] = 255
    /\ regs[15] = 1 /\ regs[1] = 255

\* ------------------------------------------------------------ stack pointer
\* C20: in every reachable state sp is an even integer in 0..46; each 2nnn
\* changes it by +2 modulo 48 and each 00EE by -2 modulo 48; a call writes the
\* low byte of its return address at an odd index and the high byte at the
\* following even index (modulo 48), and no stack access is out of the 48 cells.
C20_StackPointer ==
    /\ [](sp \in 0..(StackSize - 2) /\ sp % 2 = 0)
    /\ [][(phase = "tick" /\ IsCall(NextOp))
            => LET lo == (sp + 1) % StackSize
                   hi == (sp + 2) % StackSize
               IN /\ sp' = hi
                  /\ lo % 2 = 1 /\ hi % 2 = 0
                  /\ stack' = [stack EXCEPT ![lo] = (pc + 2) % 256, ![hi] = (pc + 2) \div 256]
                  /\ error' = "none"]_vars
    /\ [][(phase = "tick" /\ IsRet(NextOp))
            => /\ sp' = (sp - 2) % StackSize
               /\ stack' = stack
               /\ error' = "none"]_vars

\* the 24th nested call has just run from sp = 46: its return address 0x202
\* went to stack[47] and stack[0], and sp is 0 again
C20_Witness ==
    /\ IsCall(last.op) /\ last.status = "completed"
    /\ Len(calls) = Levels
    /\ sp = 0
    /\ stack[StackSize - 1] = 2 /\ stack[0] = 2

\* ------------------------------------------------------------ the driver keeps running
WaitConfigs == {[DefaultQuirks EXCEPT !.clipping = c] : c \in BOOLEAN}

\* a loop that draws a two-pixel sprite at (V1, V2) = (0, 0) for ever
DrawLoopRom == Program(<<I_LDI(RomBase + 6), I_DRW(1, 2, 1), I_JP(RomBase + 2), 49152>>)

\* the programs of three draws in a row, and the drawing loop
LiveRoms == RedrawRoms \cup {DrawLoopRom}

\* tick() can run: the guard of Tick
TickEnabled == phase = "tick" /\ ~(IsCall(NextOp) /\ Len(calls) >= MaxCalls)

\* WF_vars(Tick), with ENABLED <<Tick>>_vars written out (a tick() always
\* changes ticks_left or phase): the for loop of cycle() does not stop half way
TickFair == []<>(~TickEnabled) \/ []<><<Tick>>_vars

\* main()'s while True: load_rom() returns, and every handle_input(), tick(),
\* update_timers() and render() that cycle() calls returns and the next call
\* is made (until pygame reports QUIT)
SpecLive ==
    /\ InitWith(LiveRoms, WaitConfigs, 1..MaxIpf, {{}})
    /\ [][Next]_vars
    /\ WF_vars(LoadRom) /\ WF_vars(HandleInput) /\ WF_vars(UpdateTimers) /\ WF_vars(Render)
    /\ TickFair

\* a Dxyn has just been held back by the display wait
BlockedDraw == TrueWait /\ IsDraw(last.op) /\ last.status = "waiting-for-vblank"

\* a Dxyn has just run
DrawRan == IsDraw(last.op) /\ last.status = "completed"

\* this step is the first tick() of a cycle()
FirstStep == phase = "tick" /\ ipf >= 1 /\ ticks_left = ipf

\* C21: with display wait on and the faker off, under a driver that keeps
\* calling cycle() with ipf >= 1 (it never quits), every Dxyn held back for the
\* frame boundary eventually executes (it is the instruction every step
\* fetches until it does), and a
\* Dxyn fetched by the first step of a cycle that follows a render is never
\* held back.
C21_BlockedDrawRuns ==
    /\ BlockedDraw ~> (DrawRan \/ phase = "exited")
    /\ [][(BlockedDraw /\ phase = "tick") => (last'.pc = last.pc /\ last'.op = last.op)]_vars
    /\ [][(FirstStep /\ TrueWait /\ IsDraw(NextOp) /\ frame.rendered)
            => last'.status = "completed"]_vars

\* with two steps per frame the third Dxyn, held back in the frame of the
\* second, has just run as the first step of the next cycle
C21_Witness ==
    /\ TrueWait /\ ipf = 2 /\ phase = "tick" /\ ticks_left = 1
    /\ DrawRan /\ last.pc = RomBase + 10
    /\ frame.rendered /\ frame.draws = 1

\* ------------------------------------------------------------ the whole program
\* main(): Emulator(config), load_rom(sys.argv[1]), then cycle() for ever
Init == InitWith(StackRoms \cup KeyRoms, {DefaultQuirks}, 0..MaxIpf, {{}, {0, 15}})

Spec == Init /\ [][Next]_vars

====
